---- MODULE Spec2Model ----
(***************************************************************************)
(* Model of the wwtbm dashboard (src/src/wwtbm): the round state kept in   *)
(* the Dash stores and the timer interval (app.py), and the scoring        *)
(* aggregation over the answer log (fetch.py, app.py, visualisation.py).   *)
(*                                                                         *)
(* Three specifications are defined:                                         *)
(*   Spec     the timer / navigation state machine driven by the interval  *)
(*            ticks and the Next / Previous buttons;                       *)
(*   SpecAgg  one run of the update_leaderboard callback, entered in the   *)
(*            Expired state of a round, over an answer log drawn from a    *)
(*            bounded set of logs;                                         *)
(*   SpecDedup  the same run over shorter logs that may have empty Answer  *)
(*            cells, for the properties of filter_first_occurrence.        *)
(***************************************************************************)
EXTENDS Integers, Sequences, FiniteSets, TLC

VARIABLES
    current_question_index, \* dcc.Store "current-question-index".data
    n_intervals,            \* dcc.Interval "timer-interval".n_intervals
    time_up,                \* dcc.Store "time-up".data
    timer_display,          \* "timer-display".children (the html.H2)
    bg_audio,               \* "bg-audio" loop and src
    triggered,              \* the input that triggered the last callback chain
    prev_round,             \* the round state that chain started from
    answer_log,             \* the rows of the answers sheet (external file)
    answer_data,            \* game_data.answer_data
    leaderboard_card,       \* "leaderboard-card-body".children
    statistics_card,        \* "statistics-card".children
    lb_calls,               \* position of each execution of update_leaderboard
    trigger_file,           \* whether the file at TRIGGER_FILE exists
    sheet_columns,          \* the columns of the answer sheet
    question_text,          \* "question-text".children
    options_grid,           \* "options-grid".children
    modal_question,         \* "modal-question": is_open, header, tabs
    modal_answer,           \* "modal-answer": is_open, "visualisation-answer"
    options_grid_n_clicks,  \* "options-grid".n_clicks
    question_section_n_clicks   \* "question-section".n_clicks

vars == <<current_question_index, n_intervals, time_up, timer_display, bg_audio,
          triggered, prev_round, answer_log, answer_data, leaderboard_card,
          statistics_card, lb_calls, trigger_file, sheet_columns, question_text, options_grid, modal_question,
          modal_answer, options_grid_n_clicks, question_section_n_clicks>>

round_vars == <<current_question_index, n_intervals, time_up, timer_display,
                bg_audio, triggered, prev_round>>

agg_vars == <<answer_log, answer_data, leaderboard_card, statistics_card, lb_calls,
             trigger_file, sheet_columns>>

source_vars == <<answer_log, trigger_file, sheet_columns>>

question_vars == <<question_text, options_grid>>

\* The executions of update_leaderboard that the server may have in progress
\* at once (it serves each callback request on a thread of its own); lb_call
\* is the first of them.
Calls == {1, 2}

lb_call == lb_calls[1]

\* the columns of the answer sheet of the game
log_columns == <<"ID", "Name", "Question", "Answer", "Correct">>

modal_vars == <<modal_question, modal_answer, options_grid_n_clicks,
               question_section_n_clicks>>

Range(s) == {s[i] : i \in DOMAIN s}

(***************************************************************************)
(* Program constants.                                                      *)
(***************************************************************************)
\* len(game_data.questions)
question_count == 6

\* dcc.Interval(max_intervals=30): the interval stops firing at 30 ticks
max_intervals == 30

\* the literal 30 of update_timer: time_left = 30 - (n_intervals % 30)
countdown == 30

\* get_user_performance_graph(answer_data, 5)
top_n == 5

\* game_data.answer_points: question number -> point value (numbers 1..5 only)
answer_points == <<1000, 8000, 32000, 500000, 1000000>>

None == [none |-> TRUE]

(***************************************************************************)
(* f"{time_left}": the decimal digits of a natural number.                 *)
(***************************************************************************)
Digit == <<"0", "1", "2", "3", "4", "5", "6", "7", "8", "9">>

RECURSIVE Str(_)
Str(n) == IF n < 10 THEN <<Digit[n + 1]>>
          ELSE Str(n \div 10) \o <<Digit[(n % 10) + 1]>>

H2(children, className) == [children |-> children, className |-> className]

audio_bg == "226000-66fa2379-b277-4480-a2bc-feeb689bd09b.mp3"
audio_time_up == "226000-9027b0d6-7a4f-4ee7-946f-6d011370681f.mp3"

(***************************************************************************)
(* update_timer(n_intervals, question_index).  triggered_id is             *)
(* callback_context.triggered_id; audio is the current bg-audio value,     *)
(* which the no_update outputs leave as it is.  The result is the tuple of *)
(* the five outputs.                                                       *)
(***************************************************************************)
update_timer_no_reset(n, triggered_id, audio) ==
    LET time_left == countdown - (n % countdown) IN
    IF time_left = countdown /\ n # 0
    THEN [display |-> H2(<<"Time's up!">>, "text-danger"),
          audio |-> [loop |-> FALSE, src |-> audio_time_up],
          time_up |-> TRUE, n_intervals |-> n]
    ELSE [display |-> H2(Str(time_left), "text-warning"),
          audio |-> audio, time_up |-> FALSE, n_intervals |-> n]

update_timer_keep_count(n, triggered_id, audio) ==
    IF triggered_id = "current-question-index"
    THEN [display |-> H2(<<"3", "0">>, "text-warning"),
          audio |-> [loop |-> TRUE, src |-> audio_bg],
          time_up |-> FALSE, n_intervals |-> n]
    ELSE update_timer_no_reset(n, triggered_id, audio)

update_timer(n, triggered_id, audio) ==
    IF triggered_id = "current-question-index"
    THEN [display |-> H2(<<"3", "0">>, "text-warning"),
          audio |-> [loop |-> TRUE, src |-> audio_bg],
          time_up |-> FALSE, n_intervals |-> 0]
    ELSE LET time_left == countdown - (n % countdown) IN
         IF time_left = countdown /\ n # 0
         THEN [display |-> H2(<<"Time's up!">>, "text-danger"),
               audio |-> [loop |-> FALSE, src |-> audio_time_up],
               time_up |-> TRUE, n_intervals |-> n]
         ELSE [display |-> H2(Str(time_left), "text-warning"),
               audio |-> audio, time_up |-> FALSE, n_intervals |-> n]

(***************************************************************************)
(* navigate_questions(next_clicks, prev_clicks, current_index): button_id  *)
(* is the id of the clicked button.  The function returns an index in      *)
(* every branch (never no_update), so every click writes the store.        *)
(***************************************************************************)
navigate_questions_unclamped(button_id, current_index) ==
    IF button_id = "next-question-btn" THEN current_index + 1
    ELSE IF button_id = "prev-question-btn" /\ current_index > 0
    THEN current_index - 1
    ELSE current_index

navigate_questions(button_id, current_index) ==
    IF button_id = "next-question-btn" /\ current_index < question_count - 1
    THEN current_index + 1
    ELSE IF button_id = "prev-question-btn" /\ current_index > 0
    THEN current_index - 1
    ELSE current_index

(***************************************************************************)
(* The question bank of GameData (indices 0..5 are positions 1..6 here).   *)
(***************************************************************************)
questions ==
    <<"1. What's the biggest fear of an iPhone user?",
      "2. What is the most persistent decoration on NYC statues and buildings?",
      "3. Which type of milk is NOT real milk?",
      "4. What is the Iris dataset most commonly used for?",
      "5. What's the best way to find your gate on AIRPORT?",
      "6. Which city is home to Hollywood??">>

\* game_data.options[index]: the (letter, text) pairs; a text is identified
\* by its question index and letter
options(index) == [k \in 1..4 |-> <<(<<"A", "B", "C", "D">>)[k], <<index, k>>>>]

correct_answers == <<"D", "D", "D", "A", "B", "A">>

\* GameTheme.success
success == "#008000"

(***************************************************************************)
(* create_option_div: the style is {} until time is up; then the           *)
(* background is the success colour for the correct letter and "inherit"   *)
(* for the others.  A style is the set of its (key, value) items.          *)
(***************************************************************************)
create_option_div_ungated(option_letter, option_text, correct_answer, tu) ==
    [letter |-> option_letter, text |-> option_text,
     style |-> {<<"backgroundColor",
                  IF option_letter = correct_answer THEN success ELSE "inherit">>}]

create_option_div(option_letter, option_text, correct_answer, tu) ==
    LET style == {<<"backgroundColor",
                    IF tu /\ option_letter = correct_answer THEN success ELSE "inherit">>}
    IN [letter |-> option_letter, text |-> option_text,
        style |-> IF tu THEN style ELSE {}]

\* create_options_grid: two rows of two option divs
create_options_grid(opts, correct_answer, tu) ==
    [row \in 1..2 |->
        [col \in 1..2 |->
            LET o == opts[2 * (row - 1) + col]
            IN create_option_div(o[1], o[2], correct_answer, tu)]]

\* game_data.questions[current_index] raises IndexError outside the bank: the
\* callback then sets no output
update_question_and_options_raises(current_index) ==
    current_index \notin 0..(Len(questions) - 1)

\* update_question_and_options(current_index, time_up)
update_question_and_options(current_index, tu) ==
    [question |-> questions[current_index + 1],
     grid |-> create_options_grid(options(current_index),
                                  correct_answers[current_index + 1], tu)]

RoundState == [index |-> current_question_index, n_intervals |-> n_intervals,
               time_up |-> time_up]

(***************************************************************************)
(* The state after construction and the initial call of update_timer       *)
(* (n_intervals = 0, no trigger): the display shows 30, time_up is False.  *)
(***************************************************************************)
InitRound ==
    /\ current_question_index = 0
    /\ n_intervals = 0
    /\ time_up = FALSE
    /\ timer_display = H2(Str(countdown), "text-warning")
    /\ bg_audio = [loop |-> TRUE, src |-> audio_bg]
    /\ triggered = "initial"
    /\ prev_round = [index |-> 0, n_intervals |-> 0, time_up |-> FALSE]
    /\ question_text = update_question_and_options(0, FALSE).question
    /\ options_grid = update_question_and_options(0, FALSE).grid

\* the modals are closed and empty; the initial call of toggle_answer_modal
\* sets the click counter of the options grid to 0
InitModals ==
    /\ modal_question = [is_open |-> FALSE, header |-> None, tabs |-> None]
    /\ modal_answer = [is_open |-> FALSE, children |-> None]
    /\ options_grid_n_clicks = 0
    /\ question_section_n_clicks = 0

InitAggIdle ==
    /\ answer_log = <<>>
    /\ answer_data = None
    /\ leaderboard_card = None
    /\ statistics_card = None
    /\ lb_calls = [c \in Calls |-> "idle"]
    /\ trigger_file = FALSE
    /\ sheet_columns = log_columns

Init == InitRound /\ InitAggIdle /\ InitModals

(***************************************************************************)
(* One tick of the interval: the component adds one to n_intervals while   *)
(* fewer than max_intervals ticks were reported, and update_timer runs on  *)
(* the new count.                                                          *)
(***************************************************************************)
TickRound ==
    /\ n_intervals < max_intervals
    /\ LET out == update_timer(n_intervals + 1, "timer-interval", bg_audio) IN
        /\ timer_display' = out.display
        /\ bg_audio' = out.audio
        /\ time_up' = out.time_up
        /\ n_intervals' = out.n_intervals
    /\ triggered' = "timer-interval"
    /\ prev_round' = RoundState
    /\ IF update_question_and_options_raises(current_question_index)
       THEN UNCHANGED question_vars
       ELSE LET shown == update_question_and_options(current_question_index, time_up')
            IN /\ question_text' = shown.question
               /\ options_grid' = shown.grid
    /\ UNCHANGED current_question_index

Tick == TickRound /\ UNCHANGED <<agg_vars, modal_vars>>

(***************************************************************************)
(* A click on Next or Previous: navigate_questions returns an index, which *)
(* is written to the index store; the write of an output triggers the      *)
(* callbacks that have it as an input, also when the value written equals  *)
(* the stored one (only no_update suppresses it), so update_timer runs     *)
(* with triggered_id = "current-question-index".  update_question_and_     *)
(* options has the index and the time-up store as inputs and runs after    *)
(* update_timer, on the values both stores then hold (in Tick as well).    *)
(***************************************************************************)
NavigateRound(button_id) ==
    /\ current_question_index' = navigate_questions(button_id, current_question_index)
    /\ LET out == update_timer(n_intervals, "current-question-index", bg_audio) IN
        /\ timer_display' = out.display
        /\ bg_audio' = out.audio
        /\ time_up' = out.time_up
        /\ n_intervals' = out.n_intervals
    /\ triggered' = button_id
    /\ prev_round' = RoundState
    /\ IF update_question_and_options_raises(current_question_index')
       THEN UNCHANGED question_vars
       ELSE LET shown == update_question_and_options(current_question_index', time_up')
            IN /\ question_text' = shown.question
               /\ options_grid' = shown.grid

Navigate(button_id) == NavigateRound(button_id) /\ UNCHANGED <<agg_vars, modal_vars>>

NextQuestion == Navigate("next-question-btn")

PrevQuestion == Navigate("prev-question-btn")

\* the clicks on the question section, and on the options grid, that are
\* explored
MaxClicks == 2

(***************************************************************************)
(* get_ques_vis(number) returns index[number]() for the list index of      *)
(* question_1 .. question_4: it raises IndexError for a number that is not *)
(* a position of that list (the indices the round reaches are not          *)
(* negative).  The figures of a question are identified by its number.     *)
(***************************************************************************)
ques_vis_count == 4

get_ques_vis_raises(number) == number \notin 0..(ques_vis_count - 1)

get_ques_vis(number) == <<"question", number + 1>>

\* create_modal_tabs(figs, theme): one tab for each figure
create_modal_tabs(figs) == [tabs |-> figs]

(***************************************************************************)
(* toggle_question_modal(n_clicks, is_open, curr_ques): with a click, the  *)
(* modal is toggled and gets the question as its header and the tabs of    *)
(* get_ques_vis(curr_ques); without one, nothing is updated.               *)
(***************************************************************************)
toggle_question_modal(n_clicks, modal, curr_ques) ==
    IF n_clicks # 0
    THEN [is_open |-> ~modal.is_open,
          header |-> questions[curr_ques + 1],
          tabs |-> create_modal_tabs(get_ques_vis(curr_ques))]
    ELSE modal

\* A click on the question section adds one to its n_clicks; toggle_question_
\* modal runs on the new count.  When get_ques_vis raises, no output is set.
ClickQuestion ==
    /\ question_section_n_clicks < MaxClicks
    /\ question_section_n_clicks' = question_section_n_clicks + 1
    /\ modal_question' =
          IF get_ques_vis_raises(current_question_index) THEN modal_question
          ELSE toggle_question_modal(question_section_n_clicks', modal_question,
                                     current_question_index)
    /\ UNCHANGED <<round_vars, question_vars, agg_vars, modal_answer,
                   options_grid_n_clicks>>

Next ==
    \/ Tick
    \/ NextQuestion
    \/ PrevQuestion
    \/ ClickQuestion

Spec == Init /\ [][Next]_vars

(***************************************************************************)
(* The answer log.  A DataFrame is a record of its column names (in order) *)
(* and its rows; a row maps each column name to a cell.  ID, Name and      *)
(* Question are integers (a Name is identified by its rank in sort order), *)
(* Correct is a boolean; an Answer or points cell is NaN when empty and    *)
(* <<v>> when it holds v.                                                  *)
(***************************************************************************)
NaN == <<>>

DataFrame(columns, rows) == [columns |-> columns, rows |-> rows]

\* Bounds of the logs that are explored: the values a cell may take, and
\* the number of rows of a log given to the aggregation (MaxRows) and to the
\* deduplication alone (MaxDedupRows).
MaxRows == 3
MaxDedupRows == 2
LogIDs == {1, 2}
LogNames == {1, 2}
LogQuestions == {question_count - 1, question_count}
LogAnswers == {NaN, <<1>>}

LogRows(answers) == [ID : LogIDs, Name : LogNames, Question : LogQuestions,
                     Answer : answers, Correct : BOOLEAN]

Logs(rows, n) == UNION {[1..k -> rows] : k \in 0..n}

\* the columns whose cells may be empty
nullable_columns == {"Answer", "points"}

isna(row, c) == c \in nullable_columns /\ row[c] = NaN

(***************************************************************************)
(* df.groupby(keys): the distinct keys in ascending (lexicographic) order, *)
(* as groupby sorts its groups (sort=True).                                *)
(***************************************************************************)
RECURSIVE TupleLess(_, _)
TupleLess(a, b) ==
    IF a = <<>> \/ b = <<>> THEN a = <<>> /\ b # <<>>
    ELSE \/ Head(a) < Head(b)
         \/ Head(a) = Head(b) /\ TupleLess(Tail(a), Tail(b))

RECURSIVE SortedTuples(_)
SortedTuples(S) ==
    IF S = {} THEN <<>>
    ELSE LET m == CHOOSE x \in S : \A y \in S \ {x} : TupleLess(x, y)
         IN <<m>> \o SortedTuples(S \ {m})

KeyOf(row, by) == [i \in 1..Len(by) |-> row[by[i]]]

GroupKeys(rows, by) == SortedTuples({KeyOf(rows[i], by) : i \in 1..Len(rows)})

GroupRows(rows, by, key) == SelectSeq(rows, LAMBDA r : KeyOf(r, by) = key)

(***************************************************************************)
(* GroupBy.first(): per column, the first cell of the group that is not    *)
(* empty (NaN when every cell of the column is empty in the group).        *)
(***************************************************************************)
first(group, c) ==
    LET valid == SelectSeq(group, LAMBDA r : ~isna(r, c))
    IN IF valid = <<>> THEN NaN ELSE valid[1][c]

(***************************************************************************)
(* filter_first_occurrence(df) (fetch.py): the ValueError for missing      *)
(* columns is the guard missing_columns(df) = {}; the result is            *)
(* df.groupby(["ID", "Name", "Question"]).first().reset_index().           *)
(***************************************************************************)
required_columns == {"ID", "Name", "Question", "Answer", "Correct"}

missing_columns_unchecked(df) == {}

missing_columns(df) == required_columns \ Range(df.columns)

group_columns == <<"ID", "Name", "Question">>

IndexOf(seq, x) == CHOOSE i \in 1..Len(seq) : seq[i] = x

filter_later_occurrences(df) ==
    LET dup(i) == \E j \in 1..(i - 1) :
                     KeyOf(df.rows[j], group_columns) = KeyOf(df.rows[i], group_columns)
        idx == SortedTuples({<<i>> : i \in {k \in 1..Len(df.rows) : dup(k)}})
    IN DataFrame(df.columns, [k \in 1..Len(idx) |-> df.rows[idx[k][1]]])

filter_first_occurrence(df) ==
    LET keys == GroupKeys(df.rows, group_columns)
        value_columns == SelectSeq(df.columns, LAMBDA c : c \notin Range(group_columns))
        columns == group_columns \o value_columns
        row(key) ==
            [c \in Range(columns) |->
                IF c \in Range(group_columns)
                THEN key[IndexOf(group_columns, c)]
                ELSE first(GroupRows(df.rows, group_columns, key), c)]
    IN DataFrame(columns, [k \in 1..Len(keys) |-> row(keys[k])])

(***************************************************************************)
(* update_leaderboard (app.py), the part computing the leaderboard.        *)
(***************************************************************************)
\* answer_data["Question"].map(points): NaN for a question without points
map_points(q) == IF q \in DOMAIN answer_points THEN <<answer_points[q]>> ELSE NaN

\* answer_data["points"] = answer_data["Question"].map(points)
with_points(df) ==
    DataFrame(IF "points" \in Range(df.columns) THEN df.columns
              ELSE df.columns \o <<"points">>,
              [k \in 1..Len(df.rows) |->
                  [c \in Range(df.columns) \cup {"points"} |->
                      IF c = "points" THEN map_points(df.rows[k]["Question"])
                      ELSE df.rows[k][c]]])

\* Series.sum(): empty cells are skipped, the sum of no cells is 0
RECURSIVE sum(_)
sum(cells) ==
    IF cells = <<>> THEN 0
    ELSE (IF Head(cells) = NaN THEN 0 ELSE Head(cells)[1]) + sum(Tail(cells))

Column(rows, c) == [i \in 1..Len(rows) |-> rows[i][c]]

RECURSIVE FirstSeen(_)
FirstSeen(seq) ==
    IF seq = <<>> THEN <<>>
    ELSE <<Head(seq)>> \o FirstSeen(SelectSeq(Tail(seq), LAMBDA x : x # Head(seq)))

\* answer_data[answer_data["Correct"]].groupby("Name")["points"].sum()
\*     .to_dict().items(): one (Name, total) pair per Name, ascending by Name
points_by_name_unsorted(df) ==
    LET correct == SelectSeq(df.rows, LAMBDA r : r["Correct"])
        names == FirstSeen(Column(correct, "Name"))
    IN [k \in 1..Len(names) |->
           <<names[k], sum(Column(GroupRows(correct, <<"Name">>, <<names[k]>>), "points"))>>]

points_by_name(df) ==
    LET correct == SelectSeq(df.rows, LAMBDA r : r["Correct"])
        names == GroupKeys(correct, <<"Name">>)
    IN [k \in 1..Len(names) |->
           <<names[k][1], sum(Column(GroupRows(correct, <<"Name">>, names[k]), "points"))>>]

RemoveAt(seq, i) == SubSeq(seq, 1, i - 1) \o SubSeq(seq, i + 1, Len(seq))

\* sorted(items, key=lambda x: x[1], reverse=reverse): a stable sort, so items
\* with equal values keep their order, also with reverse=True
RECURSIVE sorted(_, _)
sorted(items, reverse) ==
    IF items = <<>> THEN <<>>
    ELSE LET before(a, b) == IF reverse THEN a > b ELSE a < b
             i == CHOOSE i \in 1..Len(items) :
                     /\ \A j \in 1..Len(items) : ~before(items[j][2], items[i][2])
                     /\ \A j \in 1..(i - 1) : items[j][2] # items[i][2]
         IN <<items[i]>> \o sorted(RemoveAt(items, i), reverse)

\* leader_board = dict(sorted(..., key=lambda x: x[1], reverse=True))
leader_board_ascending(df) == sorted(points_by_name(df), FALSE)

leader_board(df) == sorted(points_by_name(df), TRUE)

\* create_leaderboard: one table row (rank + 1, name, score) per dict item
create_leaderboard(leader_data) ==
    [k \in 1..Len(leader_data) |->
        [rank |-> (k - 1) + 1, name |-> leader_data[k][1], score |-> leader_data[k][2]]]

(***************************************************************************)
(* get_user_performance_graph(df_answer, top_n) (visualisation.py).        *)
(* groupby(["Name", "Correct"]).count().unstack() has one column per       *)
(* distinct value of Correct; naming the columns ["Incorrect", "Correct"]  *)
(* raises ValueError unless there are exactly two.  sort_values uses the   *)
(* default quicksort, which leaves the order of equal keys open, so the    *)
(* result is any of the orders by descending Correct count.                *)
(***************************************************************************)
performance_raises(df) ==
    Cardinality({df.rows[i]["Correct"] : i \in 1..Len(df.rows)}) # 2

performance_data(df) ==
    LET names == GroupKeys(df.rows, <<"Name">>)
        count(name, correct) ==
            Len(SelectSeq(df.rows, LAMBDA r : r["Name"] = name /\ r["Correct"] = correct))
    IN [k \in 1..Len(names) |->
           [Name |-> names[k][1],
            Incorrect |-> count(names[k][1], FALSE),
            Correct |-> count(names[k][1], TRUE),
            Total |-> count(names[k][1], TRUE) + count(names[k][1], FALSE)]]

head(seq, n) == SubSeq(seq, 1, IF Len(seq) < n THEN Len(seq) ELSE n)

get_user_performance_graph(df, n) ==
    LET data == performance_data(df)
        orders == {p \in [1..Len(data) -> 1..Len(data)] :
                      /\ \A i, j \in 1..Len(data) : i # j => p[i] # p[j]
                      /\ \A i, j \in 1..Len(data) :
                            i < j => data[p[i]].Correct >= data[p[j]].Correct}
    IN {head([k \in 1..Len(data) |-> data[p[k]]], n) : p \in orders}

(***************************************************************************)
(* One run of the update_leaderboard callback, invoked with time_up = True *)
(* when the round expires.  The answers file is read once the trigger file *)
(* is absent; here it is absent.                                           *)
(***************************************************************************)
ExpiredRoundAt(index) ==
    /\ current_question_index = index
    /\ n_intervals = max_intervals
    /\ time_up = TRUE
    /\ timer_display = H2(<<"Time's up!">>, "text-danger")
    /\ bg_audio = [loop |-> FALSE, src |-> audio_time_up]
    /\ triggered = "timer-interval"
    /\ prev_round = [index |-> index, n_intervals |-> max_intervals - 1,
                     time_up |-> FALSE]
    /\ question_text = update_question_and_options(index, TRUE).question
    /\ options_grid = update_question_and_options(index, TRUE).grid

ExpiredRound == ExpiredRoundAt(0)

AggStartAt(index) ==
    /\ ExpiredRoundAt(index)
    /\ InitModals
    /\ answer_data = None
    /\ leaderboard_card = None
    /\ statistics_card = None
    /\ lb_calls = [c \in Calls |-> IF c = 1 THEN "pending" ELSE "idle"]
    /\ trigger_file = FALSE
    /\ sheet_columns = log_columns

AggStart == AggStartAt(0)

\* The aggregation reads ID, Name, Question and Correct; its logs have every
\* Answer cell filled.
InitAgg == AggStart /\ answer_log \in Logs(LogRows(LogAnswers \ {NaN}), MaxRows)

\* The deduplication is explored over logs with empty Answer cells as well.
InitDedup == AggStart /\ answer_log \in Logs(LogRows(LogAnswers), MaxDedupRows)

\* game_data.update_answer_data(): answer_data = filter_first_occurrence(log)
UpdateAnswerData(c) ==
    /\ lb_calls[c] = "pending"
    /\ ~trigger_file
    /\ LET df == DataFrame(sheet_columns, answer_log) IN
        /\ missing_columns(df) = {}
        /\ answer_data' = filter_first_occurrence(df)
    /\ lb_calls' = [lb_calls EXCEPT ![c] = "fetched"]
    /\ UNCHANGED <<round_vars, question_vars, modal_vars, source_vars, leaderboard_card,
                   statistics_card>>

\* the points column, the leaderboard and the statistics figure; the
\* callback returns both outputs
UpdateLeaderboardReturn(c) ==
    /\ lb_calls[c] = "fetched"
    /\ answer_data' = with_points(answer_data)
    /\ ~performance_raises(answer_data')
    /\ leaderboard_card' = create_leaderboard(leader_board(answer_data'))
    /\ statistics_card' \in get_user_performance_graph(answer_data', top_n)
    /\ lb_calls' = [lb_calls EXCEPT ![c] = "returned"]
    /\ UNCHANGED <<round_vars, question_vars, modal_vars, source_vars>>

\* get_user_performance_graph raises: answer_data keeps the points column,
\* the callback sets no output
UpdateLeaderboardRaise(c) ==
    /\ lb_calls[c] = "fetched"
    /\ answer_data' = with_points(answer_data)
    /\ performance_raises(answer_data')
    /\ lb_calls' = [lb_calls EXCEPT ![c] = "raised"]
    /\ UNCHANGED <<round_vars, question_vars, modal_vars, source_vars, leaderboard_card,
                   statistics_card>>

NextAgg ==
    \/ \E c \in Calls : UpdateAnswerData(c)
    \/ \E c \in Calls : UpdateLeaderboardReturn(c)
    \/ \E c \in Calls : UpdateLeaderboardRaise(c)

SpecAgg == InitAgg /\ [][NextAgg]_vars

SpecDedup == InitDedup /\ [][NextAgg]_vars

(***************************************************************************)
(* The poll of get_answers_power_automate_hook:                            *)
(*     while True:                                                         *)
(*         if not Path(trigger_path).exists(): return read_excel_file(..)  *)
(* An execution at "pending" is at the head of the loop.  While the        *)
(* trigger file exists the test fails ("polling") and the loop goes round  *)
(* again; there is no other way out of the loop.  UpdateAnswerData is the  *)
(* iteration that finds no trigger file.                                   *)
(***************************************************************************)
PollBlocked(c) ==
    /\ lb_calls[c] = "pending"
    /\ trigger_file
    /\ lb_calls' = [lb_calls EXCEPT ![c] = "polling"]
    /\ UNCHANGED <<round_vars, question_vars, modal_vars, source_vars, answer_data,
                   leaderboard_card, statistics_card>>

PollAgain(c) ==
    /\ lb_calls[c] = "polling"
    /\ lb_calls' = [lb_calls EXCEPT ![c] = "pending"]
    /\ UNCHANGED <<round_vars, question_vars, modal_vars, source_vars, answer_data,
                   leaderboard_card, statistics_card>>

\* The flow that syncs the sheet removes the trigger file when it is done;
\* nothing in the program creates the file, and nothing obliges the flow to
\* run.
TriggerRemoved ==
    /\ trigger_file
    /\ trigger_file' = FALSE
    /\ UNCHANGED <<round_vars, question_vars, modal_vars, answer_log, sheet_columns,
                   answer_data, leaderboard_card, statistics_card, lb_calls>>

InitFetch ==
    /\ ExpiredRound
    /\ InitModals
    /\ answer_data = None
    /\ leaderboard_card = None
    /\ statistics_card = None
    /\ lb_calls = [c \in Calls |-> IF c = 1 THEN "pending" ELSE "idle"]
    /\ trigger_file \in BOOLEAN
    /\ sheet_columns = log_columns
    /\ answer_log \in Logs(LogRows(LogAnswers \ {NaN}), MaxDedupRows)

\* a step of the fetch of an execution: an iteration of the poll
FetchStep ==
    \/ \E c \in Calls : PollBlocked(c)
    \/ \E c \in Calls : PollAgain(c)
    \/ \E c \in Calls : UpdateAnswerData(c)

\* The fetch alone, up to the assignment of game_data.answer_data (what the
\* execution does with the data is in NextAgg).
NextFetch ==
    \/ FetchStep
    \/ TriggerRemoved

\* The thread of an execution keeps running, so the poll keeps iterating
\* (every iteration changes lb_calls); the environment need not act.
SpecFetch == InitFetch /\ [][NextFetch]_vars /\ WF_lb_calls(FetchStep)

(***************************************************************************)
(* A sheet without one of the required columns.  filter_first_occurrence   *)
(* raises ValueError("Missing required columns: ...") before it groups;    *)
(* the exception leaves get_answer_data, update_answer_data and the        *)
(* callback, so game_data.answer_data is not assigned and no output is     *)
(* set.                                                                    *)
(***************************************************************************)
UpdateAnswerDataRaise(c) ==
    /\ lb_calls[c] = "pending"
    /\ ~trigger_file
    /\ missing_columns(DataFrame(sheet_columns, answer_log)) # {}
    /\ lb_calls' = [lb_calls EXCEPT ![c] = "failed"]
    /\ UNCHANGED <<round_vars, question_vars, modal_vars, source_vars, answer_data,
                   leaderboard_card, statistics_card>>

\* the sheet as the game expects it, or with one of its columns removed
SheetColumns ==
    {log_columns} \cup
    {SelectSeq(log_columns, LAMBDA c : c # gone) : gone \in Range(log_columns)}

\* what an aggregation of the log leaves in game_data.answer_data
AggregatedData(log) ==
    with_points(filter_first_occurrence(DataFrame(log_columns, log)))

(***************************************************************************)
(* A later expiry: an earlier aggregation of the log has completed (it     *)
(* returned the leaderboard and the statistics, or raised from the         *)
(* statistics), the sheet may have lost a column since, and the timer has  *)
(* expired again, which called update_leaderboard anew.                    *)
(***************************************************************************)
InitMalformed ==
    /\ ExpiredRound
    /\ InitModals
    /\ answer_log \in Logs(LogRows(LogAnswers \ {NaN}), MaxDedupRows)
    /\ answer_data = AggregatedData(answer_log)
    /\ IF performance_raises(answer_data)
       THEN leaderboard_card = None /\ statistics_card = None
       ELSE /\ leaderboard_card = create_leaderboard(leader_board(answer_data))
            /\ statistics_card \in get_user_performance_graph(answer_data, top_n)
    /\ lb_calls = [c \in Calls |-> IF c = 1 THEN "pending" ELSE "idle"]
    /\ trigger_file = FALSE
    /\ sheet_columns \in SheetColumns

NextMalformed ==
    \/ NextAgg
    \/ \E c \in Calls : UpdateAnswerDataRaise(c)

SpecMalformed == InitMalformed /\ [][NextMalformed]_vars

(***************************************************************************)
(* The round and the aggregation together.  update_leaderboard has the     *)
(* time-up store as its input, so it is called with the value that         *)
(* update_timer writes at every tick and navigation; with a true value     *)
(* (line 691) it starts an aggregation, which then runs on a thread of the *)
(* server, in steps of its own: the execution takes the first slot of      *)
(* Calls that holds no execution in flight.                                *)
(***************************************************************************)
InFlight == {"pending", "polling", "fetched"}

update_leaderboard_unguarded(tu) == TRUE

\* update_leaderboard(time_up): whether the call aggregates (if time_up:)
update_leaderboard(tu) == tu

TimeUpWritten(tu) ==
    IF update_leaderboard(tu)
    THEN \E c \in Calls :
            /\ lb_calls[c] \notin InFlight
            /\ \A d \in Calls : d < c => lb_calls[d] \in InFlight
            /\ lb_calls' = [lb_calls EXCEPT ![c] = "pending"]
    ELSE UNCHANGED lb_calls

page_vars == <<answer_data, leaderboard_card, statistics_card, source_vars, modal_vars>>

LiveTick == TickRound /\ TimeUpWritten(time_up') /\ UNCHANGED page_vars

LiveNavigate(button_id) ==
    NavigateRound(button_id) /\ TimeUpWritten(time_up') /\ UNCHANGED page_vars

LiveNextQuestion == LiveNavigate("next-question-btn")

LivePrevQuestion == LiveNavigate("prev-question-btn")

\* The logs of the game that is played: rows of players with a name of
\* their own, for one question, which the first player answers right and
\* the others wrong.
MaxLiveRows == 2
LiveRows == {row \in LogRows(LogAnswers \ {NaN}) :
                /\ row["ID"] = row["Name"]
                /\ row["Question"] = question_count - 1
                /\ row["Correct"] = (row["ID"] = 1)}

InitLive ==
    /\ InitRound
    /\ InitModals
    /\ answer_data = None
    /\ leaderboard_card = None
    /\ statistics_card = None
    /\ lb_calls = [c \in Calls |-> "idle"]
    /\ trigger_file \in BOOLEAN
    /\ sheet_columns = log_columns
    /\ answer_log \in Logs(LiveRows, MaxLiveRows)

NextLive ==
    \/ LiveTick
    \/ LiveNextQuestion
    \/ LivePrevQuestion
    \/ NextAgg
    \/ TriggerRemoved

SpecLive == InitLive /\ [][NextLive]_vars

(***************************************************************************)
(* The answer distribution.  get_answer_distribution_graph keeps the rows  *)
(* of the question and hands their Answer cells, as they are, to a         *)
(* histogram trace of at most four bins; the x axis has the ticks 1..4,    *)
(* labelled A..D.                                                          *)
(***************************************************************************)
get_answer_distribution_graph(df, question_number) ==
    LET df_question == SelectSeq(df.rows,
                                 LAMBDA row : row["Question"] = question_number)
    IN [x |-> Column(df_question, "Answer"), nbinsx |-> 4,
        tickvals |-> <<1, 2, 3, 4>>, ticktext |-> <<"A", "B", "C", "D">>]

\* The values a histogram trace counts: the cells of x that are not empty.
histogram_values(fig) == {cell[1] : cell \in {c \in Range(fig.x) : c # NaN}}

\* The bars of a histogram trace span the values of x, from the smallest to
\* the largest; a trace of no values has no bar.
histogram_bins(fig) ==
    LET values == histogram_values(fig) IN
    IF values = {} THEN {}
    ELSE LET lo == CHOOSE v \in values : \A w \in values : v <= w
             hi == CHOOSE v \in values : \A w \in values : w <= v
         IN lo..hi

\* dcc.Graph(figure=fig)
Graph(fig) == [figure |-> fig]

(***************************************************************************)
(* toggle_answer_modal(n_clicks, time_up, is_open, curr_ques): with a      *)
(* click and time up, the modal is toggled and shows the distribution of   *)
(* question curr_ques + 1 of game_data.answer_data; otherwise the click    *)
(* counter is set to 0.  The subscript df["Question"] raises TypeError     *)
(* while game_data.answer_data is None.                                    *)
(***************************************************************************)
toggle_answer_modal_raises(n_clicks, tu, data) == n_clicks # 0 /\ tu /\ data = None

toggle_answer_modal_ungated(n_clicks, tu, modal, curr_ques, data) ==
    IF n_clicks # 0
    THEN [modal |-> [is_open |-> ~modal.is_open,
                     children |-> IF data = None THEN modal.children
                                  ELSE Graph(get_answer_distribution_graph(data,
                                                                           curr_ques + 1))],
          n_clicks |-> n_clicks]
    ELSE [modal |-> modal, n_clicks |-> 0]

toggle_answer_modal(n_clicks, tu, modal, curr_ques, data) ==
    IF n_clicks # 0 /\ tu
    THEN [modal |-> [is_open |-> ~modal.is_open,
                     children |-> Graph(get_answer_distribution_graph(data, curr_ques + 1))],
          n_clicks |-> n_clicks]
    ELSE [modal |-> modal, n_clicks |-> 0]

\* A call of toggle_answer_modal with the inputs n_clicks and tu and the
\* state curr_ques, on the modal and the answer data as they are.  When it
\* raises, no output is set and the click counter keeps the value n_clicks.
AnswerModalCalled(n_clicks, tu, curr_ques) ==
    IF toggle_answer_modal_raises(n_clicks, tu, answer_data)
    THEN /\ options_grid_n_clicks' = n_clicks
         /\ UNCHANGED modal_answer
    ELSE LET out == toggle_answer_modal(n_clicks, tu, modal_answer, curr_ques,
                                        answer_data)
         IN /\ modal_answer' = out.modal
            /\ options_grid_n_clicks' = out.n_clicks

\* A click on the options grid adds one to its n_clicks; toggle_answer_modal
\* runs on the new count.
ClickOptions ==
    /\ options_grid_n_clicks < MaxClicks
    /\ AnswerModalCalled(options_grid_n_clicks + 1, time_up, current_question_index)
    /\ UNCHANGED <<round_vars, question_vars, agg_vars, modal_question,
                   question_section_n_clicks>>

\* The distribution is explored at the expiry of a question that the log has
\* answers to.
InitDist ==
    /\ \E q \in LogQuestions : AggStartAt(q - 1)
    /\ answer_log \in Logs(LogRows(LogAnswers), MaxDedupRows)

NextDist ==
    \/ NextAgg
    \/ ClickOptions

SpecDist == InitDist /\ [][NextDist]_vars

(***************************************************************************)
(* The round, the aggregation and the answer modal together.  The time-up  *)
(* store is an input of toggle_answer_modal as well as of                  *)
(* update_leaderboard: every write of it calls both.  toggle_answer_modal  *)
(* does no waiting and is taken with the step that calls it, as the other  *)
(* callbacks of the round are; the aggregation that the same write starts  *)
(* has then made no step yet, so toggle_answer_modal reads                 *)
(* game_data.answer_data as it was before this time-up event.              *)
(***************************************************************************)
poll_unchanged == <<answer_data, leaderboard_card, statistics_card, source_vars,
                    modal_question, question_section_n_clicks>>

PollTick ==
    /\ TickRound
    /\ TimeUpWritten(time_up')
    /\ AnswerModalCalled(options_grid_n_clicks, time_up', current_question_index')
    /\ UNCHANGED poll_unchanged

PollNavigate(button_id) ==
    /\ NavigateRound(button_id)
    /\ TimeUpWritten(time_up')
    /\ AnswerModalCalled(options_grid_n_clicks, time_up', current_question_index')
    /\ UNCHANGED poll_unchanged

PollNextQuestion == PollNavigate("next-question-btn")

PollPrevQuestion == PollNavigate("prev-question-btn")

\* The logs of this game: at most one record of each player, in the order
\* of the players.
PollLogs ==
    {log \in Logs(LiveRows, Cardinality(LiveRows)) :
        \A i, j \in 1..Len(log) : i < j => log[i]["ID"] < log[j]["ID"]}

InitPoll ==
    /\ InitRound
    /\ InitModals
    /\ answer_data = None
    /\ leaderboard_card = None
    /\ statistics_card = None
    /\ lb_calls = [c \in Calls |-> "idle"]
    /\ trigger_file = FALSE
    /\ sheet_columns = log_columns
    /\ answer_log \in PollLogs

NextPoll ==
    \/ PollTick
    \/ PollNextQuestion
    \/ PollPrevQuestion
    \/ ClickOptions
    \/ NextAgg

SpecPoll == InitPoll /\ [][NextPoll]_vars

(***************************************************************************)
(* Claims about the timer / round state machine (checked under Spec).      *)
(***************************************************************************)
Buttons == {"next-question-btn", "prev-question-btn"}

\* C1: for each stay on a question the timer expires exactly once; no later
\* event that leaves the question index unchanged puts time_up back to false,
\* so a round that was Expired before the last event and is still on the same
\* question is still Expired.
C1_ExpiredUntilQuestionChanges ==
    (prev_round.time_up /\ current_question_index = prev_round.index) => time_up

\* C2: every step that changes the active question index resets the round to
\* Running(0): n_intervals = 0, time_up = false and the display shows 30.
C2_NavigationResets ==
    [][current_question_index' # current_question_index =>
         /\ n_intervals' = 0
         /\ time_up' = FALSE
         /\ timer_display'.children = <<"3", "0">>]_vars

\* C2 witness: a Next click moved to another question from an Expired round.
C2_Witness ==
    /\ triggered = "next-question-btn"
    /\ prev_round.time_up
    /\ prev_round.n_intervals = max_intervals
    /\ current_question_index = prev_round.index + 1
    /\ n_intervals = 0

\* C3: the question index always stays within [0, question_count - 1].
C3_IndexInRange == current_question_index \in 0..(question_count - 1)

\* C3 witness: Next was clicked on the last question and the index was clamped.
C3_Witness ==
    /\ triggered = "next-question-btn"
    /\ prev_round.index = question_count - 1
    /\ current_question_index = question_count - 1

\* C4: Next on the last question and Previous on the first question are
\* no-ops: the index, the tick count and the time_up flag are all unchanged.
C4_ClampedNavigationIsNoOp ==
    (\/ triggered = "next-question-btn" /\ prev_round.index = question_count - 1
     \/ triggered = "prev-question-btn" /\ prev_round.index = 0)
    => /\ current_question_index = prev_round.index
       /\ n_intervals = prev_round.n_intervals
       /\ time_up = prev_round.time_up

(***************************************************************************)
(* Claims about filter_first_occurrence (checked under SpecDedup).  At     *)
(* lb_call = "fetched", answer_data is filter_first_occurrence of the log. *)
(***************************************************************************)
LogKeys == {KeyOf(answer_log[i], group_columns) : i \in 1..Len(answer_log)}

\* C5: the deduplicated log has exactly one row per player and question (a
\* player taken, as the code takes it, by ID and Name), and the row's Answer
\* and Correct are those of the earliest log row of that player and question.
C5_FirstOccurrenceKept ==
    lb_call = "fetched" =>
        /\ Len(answer_data.rows) = Cardinality(LogKeys)
        /\ \A key \in LogKeys :
              LET earliest == GroupRows(answer_log, group_columns, key)[1]
                  kept == GroupRows(answer_data.rows, group_columns, key)
              IN /\ Len(kept) = 1
                 /\ kept[1]["Answer"] = earliest["Answer"]
                 /\ kept[1]["Correct"] = earliest["Correct"]

\* C6: deduplication is idempotent: filter_first_occurrence applied to its
\* own result returns that result.
C6_DedupIdempotent ==
    lb_call = "fetched" => filter_first_occurrence(answer_data) = answer_data

\* C6 witness: a log with duplicate submissions was deduplicated.
C6_Witness ==
    /\ lb_call = "fetched"
    /\ Len(answer_data.rows) >= 1
    /\ Len(answer_data.rows) < Len(answer_log)

(***************************************************************************)
(* Claims about the leaderboard (checked under SpecAgg).  At               *)
(* lb_call = "returned", leaderboard_card is the table of the aggregation  *)
(* and answer_data the deduplicated log with its points column.            *)
(***************************************************************************)
Scores == [k \in 1..Len(leaderboard_card) |-> <<leaderboard_card[k].score>>]

\* the points of the correct deduplicated records of the player with this ID
PlayerPoints(id) ==
    sum(Column(SelectSeq(answer_data.rows, LAMBDA r : r["ID"] = id /\ r["Correct"]),
               "points"))

\* C7: each leaderboard entry's total is the sum of the point values of the
\* correct deduplicated records of the player it names (some player ID
\* bearing the entry's Name has exactly that total).
C7_TotalIsPlayersCorrectPoints ==
    lb_call = "returned" =>
        \A k \in 1..Len(leaderboard_card) :
            \E i \in 1..Len(answer_data.rows) :
                /\ answer_data.rows[i]["Name"] = leaderboard_card[k].name
                /\ leaderboard_card[k].score = PlayerPoints(answer_data.rows[i]["ID"])

AllPoints == sum([q \in DOMAIN answer_points |-> <<answer_points[q]>>])

DistinctPlayers == {answer_log[i]["ID"] : i \in 1..Len(answer_log)}

\* C8: no (player ID, question) pair is counted twice, so the leaderboard's
\* totals sum to at most (sum of all point values) x (distinct player IDs).
C8_TotalBounded ==
    lb_call = "returned" => sum(Scores) <= AllPoints * Cardinality(DistinctPlayers)

\* C9: the leaderboard is in descending order of total_points and its rank
\* numbers are 1..k in that order.
C9_LeaderboardDescending ==
    lb_call = "returned" =>
        /\ \A i, j \in 1..Len(leaderboard_card) :
              i < j => leaderboard_card[i].score >= leaderboard_card[j].score
        /\ \A k \in 1..Len(leaderboard_card) : leaderboard_card[k].rank = k

\* C9 witness: two entries with different totals, the higher total listed
\* first although its Name sorts last.
C9_Witness ==
    /\ lb_call = "returned"
    /\ Len(leaderboard_card) >= 2
    /\ leaderboard_card[1].score > leaderboard_card[2].score
    /\ leaderboard_card[1].name > leaderboard_card[2].name

\* the first row, and the first correct row, of the answer log bearing the Name
FirstRowOf(name) ==
    CHOOSE i \in 1..Len(answer_log) :
        /\ answer_log[i]["Name"] = name
        /\ \A j \in 1..(i - 1) : answer_log[j]["Name"] # name

FirstCorrectRowOf(name) ==
    CHOOSE i \in 1..Len(answer_log) :
        /\ answer_log[i]["Name"] = name /\ answer_log[i]["Correct"]
        /\ \A j \in 1..(i - 1) : ~(answer_log[j]["Name"] = name /\ answer_log[j]["Correct"])

\* seen first in the log, by any row or by the rows that score
SeenBefore(a, b) ==
    \/ FirstRowOf(a) < FirstRowOf(b)
    \/ FirstCorrectRowOf(a) < FirstCorrectRowOf(b)

Tied(i, j) ==
    /\ i < j
    /\ leaderboard_card[i].score = leaderboard_card[j].score

\* C10 as stated: of two entries with equal totals, the one whose player
\* appears first in the answer log is listed first.
C10_TiesFirstSeen ==
    lb_call = "returned" =>
        \A i, j \in 1..Len(leaderboard_card) :
            Tied(i, j) => SeenBefore(leaderboard_card[i].name, leaderboard_card[j].name)

\* C10 as amended: of two entries with equal totals, the one whose Name sorts
\* first is listed first, whatever the order of the rows of the answer log.
C10_TiesByName ==
    lb_call = "returned" =>
        \A i, j \in 1..Len(leaderboard_card) :
            Tied(i, j) => leaderboard_card[i].name < leaderboard_card[j].name

\* C10 witness: a tie in which the entry listed first was seen last in the log.
C10_Witness ==
    /\ lb_call = "returned"
    /\ \E i, j \in 1..Len(leaderboard_card) :
          /\ Tied(i, j)
          /\ ~SeenBefore(leaderboard_card[i].name, leaderboard_card[j].name)

(***************************************************************************)
(* Claims about the answer distribution (checked under SpecDist).          *)
(***************************************************************************)
DistributionShown == modal_answer.children # None

ShownFigure == modal_answer.children.figure

\* the rows of the deduplicated log for the question on display
QuestionRows ==
    {row \in Range(answer_data.rows) : row["Question"] = current_question_index + 1}

\* the players (IDs) with a row for the question, and those of them whose
\* row has an answer
Submitted == {row["ID"] : row \in QuestionRows}

Answered == {row["ID"] : row \in {r \in QuestionRows : r["Answer"] # NaN}}

HistogramTotal(fig) == Cardinality({k \in 1..Len(fig.x) : fig.x[k] # NaN})

(***************************************************************************)
(* C11: the counts of the answer distribution shown for a question sum to  *)
(* the number of distinct players who answered that question (whether      *)
(* "answered" means a row for the question or a row with an answer).       *)
(***************************************************************************)
C11_CountsSumToPlayers ==
    DistributionShown =>
        HistogramTotal(ShownFigure) \in {Cardinality(Answered), Cardinality(Submitted)}

(***************************************************************************)
(* C12: the distribution shown for a question is reported over exactly the *)
(* four labels 1..4: each of them has a bar (of count 0 when no player     *)
(* chose it) and no other value is counted.                                *)
(***************************************************************************)
C12_ExactlyFourLabels ==
    DistributionShown =>
        /\ histogram_bins(ShownFigure) = Range(ShownFigure.tickvals)
        /\ histogram_values(ShownFigure) \subseteq Range(ShownFigure.tickvals)

(***************************************************************************)
(* Claims about a malformed sheet (checked under SpecMalformed).           *)
(***************************************************************************)
ColumnMissing == required_columns \ Range(sheet_columns) # {}

(***************************************************************************)
(* C13: when the fetched log lacks a required column, the aggregation      *)
(* fails with the error before any grouping (it never gets past the        *)
(* fetch), and the answer data stored and the leaderboard displayed by the *)
(* earlier aggregation are retained unchanged.                             *)
(***************************************************************************)
C13_MalformedAborts ==
    ColumnMissing =>
        /\ lb_call \in {"pending", "failed"}
        /\ answer_data = AggregatedData(answer_log)
        /\ IF performance_raises(answer_data)
           THEN leaderboard_card = None
           ELSE leaderboard_card = create_leaderboard(leader_board(answer_data))

\* the aggregation failed on a missing column while the leaderboard of the
\* earlier aggregation, with entries, is on display
C13_Witness ==
    /\ ColumnMissing
    /\ lb_call = "failed"
    /\ ~performance_raises(answer_data)
    /\ Len(leaderboard_card) > 0

(***************************************************************************)
(* Claims about the fetch (checked under SpecFetch).                       *)
(***************************************************************************)
InFetch(c) == lb_calls[c] \in {"pending", "polling"}

(***************************************************************************)
(* C14: fetching the answer log always terminates: an execution that is in *)
(* the poll eventually leaves it (with the log or with an error), also     *)
(* when the trigger file is never removed.                                 *)
(***************************************************************************)
C14_FetchTerminates == \A c \in Calls : InFetch(c) ~> ~InFetch(c)

(***************************************************************************)
(* Claims about the round and the aggregation together (checked under      *)
(* SpecLive).                                                              *)
(***************************************************************************)
Executing == {c \in Calls : lb_calls[c] \in InFlight}

(***************************************************************************)
(* C15: at most one aggregation is in flight at any time: no execution of  *)
(* update_leaderboard is between its start and its end while another one   *)
(* is.                                                                     *)
(***************************************************************************)
C15_OneAggregationInFlight == Cardinality(Executing) <= 1

\* the executions that the step starts, and whether the step ends one with
\* the outputs set
Started == {c \in Calls : lb_calls[c] \notin InFlight /\ lb_calls'[c] = "pending"}

Returned == \E c \in Calls : lb_calls[c] = "fetched" /\ lb_calls'[c] = "returned"

(***************************************************************************)
(* C16: a step starts an aggregation only when it makes time_up true, and  *)
(* then it starts exactly one; a tick or navigation that leaves time_up    *)
(* false starts none and leaves the leaderboard on display unchanged (the  *)
(* leaderboard changes only when an aggregation returns it).               *)
(***************************************************************************)
C16_AggregationOncePerTimeUp ==
    [][/\ Cardinality(Started) = IF ~time_up /\ time_up' THEN 1 ELSE 0
       /\ ~Returned => leaderboard_card' = leaderboard_card]_vars

\* the timer has just expired, the execution it started is in flight and
\* the leaderboard of an earlier expiry is on display
C16_Witness ==
    /\ time_up
    /\ ~prev_round.time_up
    /\ Cardinality(Executing) = 1
    /\ \E c \in Calls : lb_calls[c] = "returned"

(***************************************************************************)
(* More claims about the round (checked under Spec).                       *)
(***************************************************************************)
OptionDivs == {options_grid[row][col] : row \in 1..2, col \in 1..2}

Highlighted(div) == <<"backgroundColor", success>> \in div.style

(***************************************************************************)
(* C17: in every reachable state an option of the current question is      *)
(* rendered with the success highlight if and only if time_up is true and  *)
(* its letter is the correct answer of the current question (so no option  *)
(* is highlighted while time_up is false).                                 *)
(***************************************************************************)
C17_RevealOnlyAfterExpiry ==
    \A div \in OptionDivs :
        Highlighted(div) <=>
            (time_up /\ div.letter = correct_answers[current_question_index + 1])

\* time is up on the fourth question and its correct option A is highlighted
C17_Witness ==
    /\ time_up
    /\ current_question_index = 3
    /\ Highlighted(options_grid[1][1])
    /\ Cardinality({div \in OptionDivs : Highlighted(div)}) = 1

(***************************************************************************)
(* C19: at every question index that navigation reaches, a click on the    *)
(* question section toggles the question modal and sets its header to the  *)
(* current question.                                                       *)
(***************************************************************************)
C19_QuestionModalToggles ==
    [][question_section_n_clicks' # question_section_n_clicks =>
          /\ modal_question'.is_open = ~modal_question.is_open
          /\ modal_question'.header = questions[current_question_index + 1]]_vars

(***************************************************************************)
(* C20: in every state reached by ticks and navigation, n_intervals is in  *)
(* 0..30, time_up is true exactly when n_intervals = 30, and while time_up *)
(* is false the countdown on display is 30 - n_intervals.                  *)
(***************************************************************************)
C20_TimerInvariant ==
    /\ n_intervals \in 0..max_intervals
    /\ time_up <=> n_intervals = countdown
    /\ ~time_up => timer_display = H2(Str(countdown - n_intervals), "text-warning")

\* a navigation right after the expiry has reset the count and the display
C20_Witness ==
    /\ triggered \in Buttons
    /\ prev_round.time_up
    /\ ~time_up
    /\ n_intervals = 0
    /\ timer_display = H2(<<"3", "0">>, "text-warning")

(***************************************************************************)
(* More claims about the aggregation (checked under SpecAgg).              *)
(***************************************************************************)

(***************************************************************************)
(* C18: every question of the bank has a point value: after an aggregation *)
(* every correct record of a question of the bank has got a defined,       *)
(* positive number of points from the points mapping.                      *)
(***************************************************************************)
C18_EveryQuestionHasPoints ==
    lb_call \in {"returned", "raised"} =>
        \A k \in 1..Len(answer_data.rows) :
            LET row == answer_data.rows[k] IN
            (row["Question"] \in 1..question_count /\ row["Correct"]) =>
                /\ row["Question"] \in DOMAIN answer_points
                /\ row["points"] # NaN
                /\ row["points"][1] > 0

(***************************************************************************)
(* C21: with a well-formed, non-empty log the call of update_leaderboard   *)
(* completes with the leaderboard and the statistics, whatever the mix of  *)
(* correct and incorrect records; the statistics list at most top_n users  *)
(* in descending order of their correct answers, and the Correct and       *)
(* Incorrect counts of a user sum to the number of the user's records.     *)
(***************************************************************************)
C21_StatisticsForEveryMix ==
    (Len(answer_log) > 0 /\ lb_call \in {"returned", "raised"}) =>
        /\ lb_call = "returned"
        /\ Len(statistics_card) <= top_n
        /\ \A i, j \in 1..Len(statistics_card) :
              i < j => statistics_card[i].Correct >= statistics_card[j].Correct
        /\ \A k \in 1..Len(statistics_card) :
              statistics_card[k].Correct + statistics_card[k].Incorrect =
                  Len(SelectSeq(answer_data.rows,
                                LAMBDA r : r["Name"] = statistics_card[k].Name))

\* the names on the leaderboard, and the names with a correct record in the
\* deduplicated log
LeaderboardNames == {leaderboard_card[k].name : k \in 1..Len(leaderboard_card)}

CorrectNames ==
    {answer_data.rows[k]["Name"] :
        k \in {i \in 1..Len(answer_data.rows) : answer_data.rows[i]["Correct"]}}

(***************************************************************************)
(* C24: after an aggregation the leaderboard on display lists exactly the  *)
(* players with at least one correct record in the deduplicated log, each  *)
(* once: a player without a correct record is not listed, and a log        *)
(* without a correct record gives an empty leaderboard.                    *)
(***************************************************************************)
C24_LeaderboardIsCorrectPlayers ==
    lb_call \in {"returned", "raised"} =>
        /\ lb_call = "returned"
        /\ LeaderboardNames = CorrectNames
        /\ Len(leaderboard_card) = Cardinality(CorrectNames)

(***************************************************************************)
(* Claims about the answer modal in the round (checked under SpecPoll).    *)
(***************************************************************************)
AnswerModalOpens == ~modal_answer.is_open /\ modal_answer'.is_open

(***************************************************************************)
(* C22: the answer modal changes from closed to open only with time_up     *)
(* true and a non-zero click count of the options grid; while time_up is   *)
(* false a click on the options grid does not open it and the click        *)
(* counter is back at 0.                                                   *)
(***************************************************************************)
C22_AnswerModalOpensOnlyAfterExpiry ==
    [][/\ AnswerModalOpens => (time_up' /\ options_grid_n_clicks' # 0)
       /\ ~time_up' => (~AnswerModalOpens /\ options_grid_n_clicks' = 0)]_vars

\* time is up, the options grid was clicked and the modal is open with the
\* distribution
C22_Witness ==
    /\ time_up
    /\ options_grid_n_clicks # 0
    /\ modal_answer.is_open
    /\ modal_answer.children # None

\* the step calls toggle_answer_modal (by a click or by the write of the
\* time-up store) with a click count and time up, so that it computes the
\* distribution
ComputesDistribution ==
    /\ time_up'
    /\ options_grid_n_clicks' # 0
    /\ \/ ~time_up
       \/ options_grid_n_clicks' # options_grid_n_clicks
       \/ modal_answer' # modal_answer

(***************************************************************************)
(* C23: whenever toggle_answer_modal computes an answer distribution,      *)
(* game_data.answer_data has been loaded (it is not None) and the          *)
(* aggregation of the time-up event has completed its load: no execution   *)
(* of update_leaderboard is still before the assignment of the data.       *)
(***************************************************************************)
C23_DistributionAfterAggregation ==
    [][ComputesDistribution =>
          /\ answer_data # None
          /\ \A c \in Calls : lb_calls'[c] \notin {"pending", "polling"}]_vars

====
